---- MODULE Spec2Model ----
(***************************************************************************)
(* DOS name translation of PC-BASIC (pcbasic/basic/devices/dosnames.py).   *)
(*                                                                         *)
(* Characters are their code points (ASCII), a name or a path is a         *)
(* sequence of code points.  The native file system is a tree of nodes:    *)
(* a function from node paths (sequences of names, from "/") to "dir" or   *)
(* "file".  The host is POSIX (os.sep = "/"; the non-win32 short_name).    *)
(***************************************************************************)
EXTENDS Integers, Sequences, FiniteSets, TLC

VARIABLES fs, unreadable, npe, mf, ops, calls, nrm, pf, changes

vars == <<fs, unreadable, npe, mf, ops, calls, nrm, pf, changes>>

----------------------------------------------------------------------------
(* Characters and strings *)

Ord ==
  [c \in {"\n", " ", "#", "%", "&", "*", "+", ".", "/", "1", "?", "A", "B",
          "C", "D", "E", "F", "G", "H", "I", "L", "M", "N", "O", "S", "T", "X",
          "\\", "a", "b", "e", "f", "g", "h", "i", "l", "m", "n", "o", "r",
          "s", "t", "x"} |->
     CASE c = "\n" -> 10
       [] c = " " -> 32 [] c = "#" -> 35 [] c = "%" -> 37 [] c = "&" -> 38
       [] c = "*" -> 42 [] c = "+" -> 43 [] c = "." -> 46 [] c = "/" -> 47
       [] c = "1" -> 49 [] c = "?" -> 63
       [] c = "A" -> 65 [] c = "B" -> 66 [] c = "C" -> 67 [] c = "D" -> 68
       [] c = "E" -> 69 [] c = "F" -> 70 [] c = "G" -> 71 [] c = "H" -> 72
       [] c = "I" -> 73 [] c = "L" -> 76 [] c = "M" -> 77 [] c = "N" -> 78
       [] c = "O" -> 79 [] c = "S" -> 83 [] c = "T" -> 84 [] c = "X" -> 88
       [] c = "\\" -> 92
       [] c = "a" -> 97 [] c = "b" -> 98 [] c = "e" -> 101 [] c = "f" -> 102
       [] c = "g" -> 103 [] c = "h" -> 104 [] c = "i" -> 105 [] c = "l" -> 108
       [] c = "m" -> 109 [] c = "n" -> 110 [] c = "o" -> 111 [] c = "r" -> 114
       [] c = "s" -> 115 [] c = "t" -> 116 [] c = "x" -> 120]

\* the string spelled by a tuple of one-character strings
Str(s) == [i \in 1..Len(s) |-> Ord[s[i]]]

Dot == Ord["."]
Sep == Ord["/"]
Backslash == Ord["\\"]

\* the set with "%" left out
ALLOWABLE_CHARS_NoPercent ==
  (65..90) \cup (97..122) \cup (48..57)
    \cup {32, 33, 35, 36, 38, 39, 40, 41, 45, 64, 94, 95, 96, 123, 125, 126}

\* string.ascii_letters + string.digits + " !#$%&'()-@^_`{}~"
ALLOWABLE_CHARS ==
  (65..90) \cup (97..122) \cup (48..57)
    \cup {32, 33, 35, 36, 37, 38, 39, 40, 41, 45, 64, 94, 95, 96, 123, 125, 126}

\* what str.strip() removes
Whitespace == {9, 10, 11, 12, 13, 32}

Chars(s) == {s[i] : i \in 1..Len(s)}

Take(s, n) == SubSeq(s, 1, IF n < Len(s) THEN n ELSE Len(s))

Drop(s, n) == SubSeq(s, n + 1, Len(s))

\* name.encode('ascii', errors='replace')
EncodeAscii(s) == [i \in 1..Len(s) |-> IF s[i] > 127 THEN Ord["?"] ELSE s[i]]

\* str.upper()
Upper(s) == [i \in 1..Len(s) |-> IF s[i] \in 97..122 THEN s[i] - 32 ELSE s[i]]

\* str.strip()
RECURSIVE LStrip(_)
LStrip(s) ==
  IF s # <<>> /\ Head(s) \in Whitespace THEN LStrip(Tail(s)) ELSE s

RECURSIVE RStrip(_)
RStrip(s) ==
  IF s # <<>> /\ s[Len(s)] \in Whitespace
    THEN RStrip(SubSeq(s, 1, Len(s) - 1))
    ELSE s

Strip(s) == RStrip(LStrip(s))

\* index of the first c in s, 0 if there is none
RECURSIVE Find(_, _, _)
Find(s, c, i) ==
  IF i > Len(s) THEN 0 ELSE IF s[i] = c THEN i ELSE Find(s, c, i + 1)

\* str.split(c): the list of the pieces between the occurrences of c
RECURSIVE Split(_, _)
Split(s, c) ==
  LET k == Find(s, c, 1)
  IN IF k = 0 THEN <<s>> ELSE <<Take(s, k - 1)>> \o Split(Drop(s, k), c)

\* str.split(c, 1): split at the first c only
Split1(s, c) ==
  LET k == Find(s, c, 1)
  IN IF k = 0 THEN <<s>> ELSE <<Take(s, k - 1), Drop(s, k)>>

\* the order of sorted() on strings: by code point, a prefix first
RECURSIVE StrLess(_, _)
StrLess(a, b) ==
  IF b = <<>> THEN FALSE
  ELSE IF a = <<>> THEN TRUE
  ELSE IF Head(a) # Head(b) THEN Head(a) < Head(b)
  ELSE StrLess(Tail(a), Tail(b))

\* sorted(S) for a set of strings
RECURSIVE Sorted(_)
Sorted(S) ==
  IF S = {} THEN <<>>
  ELSE LET m == CHOOSE x \in S : \A y \in S \ {x} : StrLess(x, y)
       IN <<m>> \o Sorted(S \ {m})

----------------------------------------------------------------------------
(* DOS name codec *)

\* a split that keeps one character less of the trunk
split_dosname_Trunk7(name, mark_shortened) ==
  LET n == Upper(Strip(EncodeAscii(name)))
      elements == Split1(n, Dot)
      trunk == elements[1]
      ext == IF Len(elements) = 1 THEN <<>> ELSE elements[2]
  IN <<Take(trunk, 7), Take(ext, 3)>>

\* a split that marks both parts whenever marking is asked for
split_dosname_AlwaysMark(name, mark_shortened) ==
  LET n == Upper(Strip(EncodeAscii(name)))
      elements == Split1(n, Dot)
      trunk == elements[1]
      ext == IF Len(elements) = 1 THEN <<>> ELSE elements[2]
  IN IF mark_shortened
       THEN <<Take(trunk, 7) \o Str(<<"+">>), Take(ext, 2) \o Str(<<"+">>)>>
       ELSE <<Take(trunk, 8), Take(ext, 3)>>

\* split_dosname(name, mark_shortened)
split_dosname(name, mark_shortened) ==
  LET n == Upper(Strip(EncodeAscii(name)))
      elements == Split1(n, Dot)
      trunk == elements[1]
      ext == IF Len(elements) = 1 THEN <<>> ELSE elements[2]
      strunk == Take(trunk, 8)
      sext == Take(ext, 3)
      mtrunk == IF mark_shortened /\ strunk # trunk
                  THEN Take(strunk, 7) \o Str(<<"+">>) ELSE strunk
      mext == IF mark_shortened /\ sext # ext
                THEN Take(sext, 2) \o Str(<<"+">>) ELSE sext
  IN IF n = Str(<<".">>) THEN <<(<<>>), (<<>>)>>
     ELSE IF n = Str(<<".", ".">>) THEN <<(<<>>), Str(<<".">>)>>
     ELSE <<mtrunk, mext>>

\* str.ljust(n)
LJust(s, n) == s \o [i \in 1..(n - Len(s)) |-> Ord[" "]]

\* join_dosname(trunk, ext, padding)
join_dosname(trunk, ext, padding) ==
  LET e == IF ext # <<>> \/ trunk = <<>> THEN <<Dot>> \o ext ELSE ext
  IN IF padding THEN LJust(trunk, 8) \o LJust(e, 4) ELSE trunk \o e

\* short_name(path, longname), the branch taken off win32
short_name(dummy_path, longname) == split_dosname(longname, TRUE)

\* what the "." of a regular expression matches: anything but a newline
ReDot(c) == c # Ord["\n"]

\* the regular expression built from a mask, between \A and \Z:
\* "." for "?", ".*" for "*", re.escape(c) for any other character
Regexp(mask) ==
  [i \in 1..Len(mask) |->
     IF mask[i] = Ord["?"] THEN [kind |-> "dot", c |-> 0]
     ELSE IF mask[i] = Ord["*"] THEN [kind |-> "dotstar", c |-> 0]
     ELSE [kind |-> "escaped", c |-> mask[i]]]

\* the positions of the expression reached from S without reading anything
ReSkip(re, S) ==
  {j \in 1..(Len(re) + 1) :
     \E i \in S : i <= j /\ \A m \in i..(j - 1) : re[m].kind = "dotstar"}

\* the positions reached from S by reading the character c
ReRead(re, S, c) ==
  {i + 1 : i \in {j \in ReSkip(re, S) :
                   /\ j <= Len(re)
                   /\ \/ re[j].kind = "dot" /\ ReDot(c)
                      \/ re[j].kind = "escaped" /\ re[j].c = c}}
    \cup {j \in ReSkip(re, S) :
            j <= Len(re) /\ re[j].kind = "dotstar" /\ ReDot(c)}

\* the match of an expression without \Z: it may end before the name does
RECURSIVE ReMatch_Unanchored(_, _, _, _)
ReMatch_Unanchored(re, name, k, S) ==
  \/ (Len(re) + 1) \in ReSkip(re, S)
  \/ /\ k <= Len(name)
     /\ ReMatch_Unanchored(re, name, k + 1, ReRead(re, S, name[k]))

\* cregexp.match(name): from \A, the whole name read, \Z reached
RECURSIVE ReMatch(_, _, _, _)
ReMatch(re, name, k, S) ==
  IF k > Len(name)
    THEN (Len(re) + 1) \in ReSkip(re, S)
    ELSE ReMatch(re, name, k + 1, ReRead(re, S, name[k]))

\* match_wildcard(name, mask)
match_wildcard(name, mask) == ReMatch(Regexp(mask), name, 1, {1})

\* the order of sorted() on (trunk, ext) tuples: by trunk, then by ext
TupleLess(a, b) ==
  StrLess(a[1], b[1]) \/ (a[1] = b[1] /\ StrLess(a[2], b[2]))

\* sorted(l) for a list of tuples, equal ones kept
RECURSIVE SortedList(_)
SortedList(l) ==
  IF l = <<>> THEN <<>>
  ELSE LET rest == SortedList(Tail(l))
           n == Cardinality({i \in 1..Len(rest) : TupleLess(rest[i], Head(l))})
       IN SubSeq(rest, 1, n) \o <<Head(l)>> \o SubSeq(rest, n + 1, Len(rest))

\* a filter that shows the dotfiles
filter_names_NoHide(path, files_list, mask) ==
  LET all_files == [i \in 1..Len(files_list) |-> short_name(path, files_list[i])]
      masks == split_dosname(mask, FALSE)
      Kept(p) == match_wildcard(p[1], masks[1]) /\ match_wildcard(p[2], masks[2])
  IN SortedList(SelectSeq(all_files, Kept))

\* filter_names(path, files_list, mask)
filter_names(path, files_list, mask) ==
  LET all_files == [i \in 1..Len(files_list) |-> short_name(path, files_list[i])]
      masks == split_dosname(mask, FALSE)
      trunkmask == masks[1]
      extmask == masks[2]
      Kept(p) ==
        /\ match_wildcard(p[1], trunkmask)
        /\ match_wildcard(p[2], extmask)
        /\ (p[1] # <<>> \/ p[2] = <<>> \/ p[2] = Str(<<".">>))
  IN SortedList(SelectSeq(all_files, Kept))

----------------------------------------------------------------------------
(* The native file system, as os.path and os.listdir see it *)

Root == <<>>

IsDirNode(f, p) == p \in DOMAIN f /\ f[p] = "dir"

IsFileNode(f, p) == p \in DOMAIN f /\ f[p] = "file"

NoNode == [ok |-> FALSE, node |-> Root]

\* the node a list of path components leads to from node cur: every
\* component is looked up in a directory; "" and "." stay, ".." goes up
RECURSIVE Walk(_, _, _)
Walk(f, cur, comps) ==
  IF comps = <<>> THEN (IF cur \in DOMAIN f THEN [ok |-> TRUE, node |-> cur] ELSE NoNode)
  ELSE IF ~IsDirNode(f, cur) THEN NoNode
  ELSE LET c == Head(comps)
       IN IF c = <<>> \/ c = <<Dot>> THEN Walk(f, cur, Tail(comps))
          ELSE IF c = <<Dot, Dot>>
            THEN Walk(f, IF cur = Root THEN Root ELSE SubSeq(cur, 1, Len(cur) - 1),
                      Tail(comps))
          ELSE Walk(f, Append(cur, c), Tail(comps))

\* the node a native path string names (the process works in "/")
Lookup(f, s) == IF s = <<>> THEN NoNode ELSE Walk(f, Root, Split(s, Sep))

\* os.path.join(a, p)
os_path_join(a, p) ==
  IF p # <<>> /\ Head(p) = Sep THEN p
  ELSE IF a = <<>> \/ a[Len(a)] = Sep THEN a \o p
  ELSE a \o <<Sep>> \o p

os_path_isdir(f, s) == LET n == Lookup(f, s) IN n.ok /\ f[n.node] = "dir"

os_path_isfile(f, s) == LET n == Lookup(f, s) IN n.ok /\ f[n.node] = "file"

\* os.listdir(path) succeeds on a directory that can be read
CanList(f, u, path) ==
  LET n == Lookup(f, path) IN n.ok /\ f[n.node] = "dir" /\ n.node \notin u

\* the names os.listdir(path) returns
Entries(f, path) ==
  LET d == Lookup(f, path).node
  IN {p[Len(p)] : p \in {q \in DOMAIN f : Len(q) = Len(d) + 1
                                          /\ SubSeq(q, 1, Len(d)) = d}}

\* istype(path, native_name, isdir)
istype(f, path, native_name, isdir) ==
  LET name == os_path_join(path, native_name)
  IN IF isdir THEN os_path_isdir(f, name) ELSE os_path_isfile(f, name)

----------------------------------------------------------------------------
(* match_filename and match_dosname, one step per file system access *)

NoResult == [kind |-> "none", name |-> <<>>, err |-> ""]

Return(name) == [kind |-> "return", name |-> name, err |-> ""]

Raise(err) == [kind |-> "raise", name |-> <<>>, err |-> err]

None == [some |-> FALSE, name |-> <<>>]

Some(name) == [some |-> TRUE, name |-> name]

\* a truth test of Python: None and the empty string are false
Truthy(v) == v.some /\ v.name # <<>>

\* the frame of a call that is not running
MFIdle ==
  [pc |-> "idle", raw |-> <<>>, name |-> <<>>, defext |-> <<>>, path |-> <<>>,
   name_err |-> "", isdir |-> FALSE, trunk |-> <<>>, ext |-> <<>>,
   dosname |-> <<>>, dtrunk |-> <<>>, dext |-> <<>>, all_names |-> <<>>,
   i |-> 1, fullname |-> None, res |-> NoResult]

\* the frame on entry of match_filename(name, defext, path, name_err, isdir)
MFEnter(name, defext, path, name_err, isdir) ==
  [MFIdle EXCEPT !.pc = "begin", !.raw = name, !.name = name,
                 !.defext = defext, !.path = path, !.name_err = name_err,
                 !.isdir = isdir]

ProbeEvent(f, path, name, isdir) ==
  [op |-> "istype", path |-> path, name |-> name, isdir |-> isdir,
   res |-> istype(f, path, name, isdir)]

CheckEvent(name) ==
  [op |-> "check", path |-> <<>>, name |-> name, isdir |-> FALSE, res |-> TRUE]

ListEvent(f, u, path) ==
  [op |-> "listdir", path |-> path, name |-> <<>>, isdir |-> TRUE,
   res |-> CanList(f, u, path)]

Step(m, log) == [m |-> m, log |-> log]

\* the trailing dot probed but never dropped
MFBegin_KeepDot(f, m) ==
  IF m.defext # <<>> /\ Dot \notin Chars(m.name)
    THEN Step([m EXCEPT !.name = m.name \o <<Dot>> \o m.defext, !.pc = "exact"],
              <<>>)
  ELSE IF m.name = <<>>
    THEN Step([m EXCEPT !.res = Raise("IndexError"), !.pc = "done"], <<>>)
  ELSE IF m.name[Len(m.name)] = Dot
          /\ Dot \notin Chars(SubSeq(m.name, 1, Len(m.name) - 1))
    THEN IF istype(f, m.path, m.name, m.isdir)
           THEN Step([m EXCEPT !.res = Return(m.name), !.pc = "done"],
                     <<ProbeEvent(f, m.path, m.name, m.isdir)>>)
           ELSE Step([m EXCEPT !.pc = "exact"],
                     <<ProbeEvent(f, m.path, m.name, m.isdir)>>)
  ELSE Step([m EXCEPT !.pc = "exact"], <<>>)

\* default extension and trailing single dot
MFBegin(f, m) ==
  IF m.defext # <<>> /\ Dot \notin Chars(m.name)
    THEN Step([m EXCEPT !.name = m.name \o <<Dot>> \o m.defext, !.pc = "exact"],
              <<>>)
  ELSE IF m.name = <<>>
    THEN Step([m EXCEPT !.res = Raise("IndexError"), !.pc = "done"], <<>>)
  ELSE IF m.name[Len(m.name)] = Dot
          /\ Dot \notin Chars(SubSeq(m.name, 1, Len(m.name) - 1))
    THEN IF istype(f, m.path, m.name, m.isdir)
           THEN Step([m EXCEPT !.res = Return(m.name), !.pc = "done"],
                     <<ProbeEvent(f, m.path, m.name, m.isdir)>>)
           ELSE Step([m EXCEPT !.name = SubSeq(m.name, 1, Len(m.name) - 1),
                               !.pc = "exact"],
                     <<ProbeEvent(f, m.path, m.name, m.isdir)>>)
  ELSE Step([m EXCEPT !.pc = "exact"], <<>>)

\* dossification without the probe of the name as-is
MFExact_NoProbe(f, m) == Step([m EXCEPT !.pc = "dossify"], <<>>)

\* check if the name exists as-is
MFExact(f, m) ==
  IF istype(f, m.path, m.name, m.isdir)
    THEN Step([m EXCEPT !.res = Return(m.name), !.pc = "done"],
              <<ProbeEvent(f, m.path, m.name, m.isdir)>>)
    ELSE Step([m EXCEPT !.pc = "dossify"],
              <<ProbeEvent(f, m.path, m.name, m.isdir)>>)

\* the check of the characters with the dot let through
MFDossify_DotsAllowed(m) ==
  LET te == split_dosname(m.name, FALSE)
      trunk == te[1]
      ext == te[2]
  IN IF (Chars(trunk) \cup Chars(ext)) \ (ALLOWABLE_CHARS \cup {Dot}) # {}
       THEN Step([m EXCEPT !.trunk = trunk, !.ext = ext,
                           !.res = Raise("BAD_FILE_NAME"), !.pc = "done"],
                 <<CheckEvent(m.name)>>)
       ELSE Step([m EXCEPT !.trunk = trunk, !.ext = ext,
                           !.dosname = join_dosname(trunk, ext, FALSE),
                           !.pc = "md_probe"],
                 <<CheckEvent(m.name)>>)

\* split into trunk and ext, enforce allowable characters, join
MFDossify(m) ==
  LET te == split_dosname(m.name, FALSE)
      trunk == te[1]
      ext == te[2]
  IN IF (Chars(trunk) \cup Chars(ext)) \ ALLOWABLE_CHARS # {}
       THEN Step([m EXCEPT !.trunk = trunk, !.ext = ext,
                           !.res = Raise("BAD_FILE_NAME"), !.pc = "done"],
                 <<CheckEvent(m.name)>>)
       ELSE Step([m EXCEPT !.trunk = trunk, !.ext = ext,
                           !.dosname = join_dosname(trunk, ext, FALSE),
                           !.pc = "md_probe"],
                 <<CheckEvent(m.name)>>)

\* match_dosname: check if the dossified name exists as-is
MDProbe(f, m) ==
  IF istype(f, m.path, m.dosname, m.isdir)
    THEN Step([m EXCEPT !.fullname = Some(m.dosname), !.pc = "finish"],
              <<ProbeEvent(f, m.path, m.dosname, m.isdir)>>)
    ELSE Step([m EXCEPT !.pc = "md_list"],
              <<ProbeEvent(f, m.path, m.dosname, m.isdir)>>)

\* the failure of the listing let through to the caller
MDList_Propagate(f, u, m) ==
  LET te == split_dosname(m.dosname, FALSE)
  IN IF CanList(f, u, m.path)
       THEN Step([m EXCEPT !.dtrunk = te[1], !.dext = te[2],
                           !.all_names = Sorted(Entries(f, m.path)),
                           !.i = 1, !.pc = "md_scan"],
                 <<ListEvent(f, u, m.path)>>)
       ELSE Step([m EXCEPT !.dtrunk = te[1], !.dext = te[2],
                           !.res = Raise("EnvironmentError"), !.pc = "done"],
                 <<ListEvent(f, u, m.path)>>)

\* the listing taken in descending order
MDList_Descending(f, u, m) ==
  LET te == split_dosname(m.dosname, FALSE)
      asc == Sorted(Entries(f, m.path))
  IN IF CanList(f, u, m.path)
       THEN Step([m EXCEPT !.dtrunk = te[1], !.dext = te[2],
                           !.all_names = [j \in 1..Len(asc) |-> asc[Len(asc) + 1 - j]],
                           !.i = 1, !.pc = "md_scan"],
                 <<ListEvent(f, u, m.path)>>)
       ELSE Step([m EXCEPT !.dtrunk = te[1], !.dext = te[2],
                           !.fullname = None, !.pc = "finish"],
                 <<ListEvent(f, u, m.path)>>)

\* match_dosname: split the dossified name, list the directory sorted
MDList(f, u, m) ==
  LET te == split_dosname(m.dosname, FALSE)
  IN IF CanList(f, u, m.path)
       THEN Step([m EXCEPT !.dtrunk = te[1], !.dext = te[2],
                           !.all_names = Sorted(Entries(f, m.path)),
                           !.i = 1, !.pc = "md_scan"],
                 <<ListEvent(f, u, m.path)>>)
       ELSE Step([m EXCEPT !.dtrunk = te[1], !.dext = te[2],
                           !.fullname = None, !.pc = "finish"],
                 <<ListEvent(f, u, m.path)>>)

\* the loop without the check of the kind of the entry
MDScan_AnyKind(f, m) ==
  IF m.i > Len(m.all_names)
    THEN Step([m EXCEPT !.fullname = None, !.pc = "finish"], <<>>)
  ELSE LET n == m.all_names[m.i]
       IN IF split_dosname(n, FALSE) # <<m.dtrunk, m.dext>>
            THEN Step([m EXCEPT !.i = m.i + 1], <<>>)
          ELSE Step([m EXCEPT !.fullname = Some(n), !.pc = "finish"], <<>>)

\* match_dosname: one turn of the loop over the listing
MDScan(f, m) ==
  IF m.i > Len(m.all_names)
    THEN Step([m EXCEPT !.fullname = None, !.pc = "finish"], <<>>)
  ELSE LET n == m.all_names[m.i]
       IN IF split_dosname(n, FALSE) # <<m.dtrunk, m.dext>>
            THEN Step([m EXCEPT !.i = m.i + 1], <<>>)
          ELSE IF istype(f, m.path, n, m.isdir)
            THEN Step([m EXCEPT !.fullname = Some(n), !.pc = "finish"],
                      <<ProbeEvent(f, m.path, n, m.isdir)>>)
          ELSE Step([m EXCEPT !.i = m.i + 1],
                    <<ProbeEvent(f, m.path, n, m.isdir)>>)

\* the name as constructed returned for a new file, not its 8.3 form
MFFinish_RawName(m) ==
  IF Truthy(m.fullname)
    THEN Step([m EXCEPT !.res = Return(m.fullname.name), !.pc = "done"], <<>>)
  ELSE IF m.name_err = ""
    THEN Step([m EXCEPT !.res = Return(m.name), !.pc = "done"], <<>>)
  ELSE Step([m EXCEPT !.res = Raise(m.name_err), !.pc = "done"], <<>>)

\* the 8.3 name returned where nothing matched, whatever the mode
MFFinish_NeverRaise(m) ==
  IF Truthy(m.fullname)
    THEN Step([m EXCEPT !.res = Return(m.fullname.name), !.pc = "done"], <<>>)
  ELSE Step([m EXCEPT !.res = Return(m.dosname), !.pc = "done"], <<>>)

\* return the match, the new name or the error
MFFinish(m) ==
  IF Truthy(m.fullname)
    THEN Step([m EXCEPT !.res = Return(m.fullname.name), !.pc = "done"], <<>>)
  ELSE IF m.name_err = ""
    THEN Step([m EXCEPT !.res = Return(m.dosname), !.pc = "done"], <<>>)
  ELSE Step([m EXCEPT !.res = Raise(m.name_err), !.pc = "done"], <<>>)

\* the step a frame takes next
MFStep(f, u, m) ==
  CASE m.pc = "begin" -> MFBegin(f, m)
    [] m.pc = "exact" -> MFExact(f, m)
    [] m.pc = "dossify" -> MFDossify(m)
    [] m.pc = "md_probe" -> MDProbe(f, m)
    [] m.pc = "md_list" -> MDList(f, u, m)
    [] m.pc = "md_scan" -> MDScan(f, m)
    [] m.pc = "finish" -> MFFinish(m)

\* match_filename run to its end on a file system that does not change
RECURSIVE MFRun(_, _, _)
MFRun(f, u, m) == IF m.pc = "done" THEN m ELSE MFRun(f, u, MFStep(f, u, m).m)

match_filename(f, u, name, defext, path, name_err, isdir) ==
  MFRun(f, u, MFEnter(name, defext, path, name_err, isdir)).res

----------------------------------------------------------------------------
(* dos_normpath *)

\* del elements[k], k counted from 0
DelAt(elements, k) ==
  SubSeq(elements, 1, k) \o SubSeq(elements, k + 2, Len(elements))

\* the loop with i left where it is after a ".." took its predecessor
NormStep_NoBack(st) ==
  LET e == st.elements[st.i + 1]
  IN IF e = <<Dot>>
       THEN [st EXCEPT !.elements = DelAt(st.elements, st.i)]
     ELSE IF e = <<Dot, Dot>>
       THEN IF st.i > 0
              THEN [elements |-> DelAt(DelAt(st.elements, st.i), st.i - 1),
                    i |-> st.i]
              ELSE [st EXCEPT !.elements = DelAt(st.elements, st.i)]
     ELSE [st EXCEPT !.i = st.i + 1]

\* one turn of the while loop; i counts from 0
NormStep(st) ==
  LET e == st.elements[st.i + 1]
  IN IF e = <<Dot>>
       THEN [st EXCEPT !.elements = DelAt(st.elements, st.i)]
     ELSE IF e = <<Dot, Dot>>
       THEN IF st.i > 0
              THEN [elements |-> DelAt(DelAt(st.elements, st.i), st.i - 1),
                    i |-> st.i - 1]
              ELSE [st EXCEPT !.elements = DelAt(st.elements, st.i)]
     ELSE [st EXCEPT !.i = st.i + 1]

RECURSIVE NormRun(_)
NormRun(st) == IF st.i < Len(st.elements) THEN NormRun(NormStep(st)) ELSE st

\* dos_normpath(elements)
dos_normpath(elements) == NormRun([elements |-> elements, i |-> 0]).elements

----------------------------------------------------------------------------
(* NameConverter.native_path_elements *)

NoTriple == [kind |-> "none", root |-> <<>>, rel |-> <<>>, name |-> <<>>, err |-> ""]

NPEIdle ==
  [pc |-> "idle", path_without_drive |-> <<>>, path_err |-> "",
   native_root |-> <<>>, native_cwd |-> <<>>, join_name |-> FALSE,
   elements |-> <<>>, name |-> <<>>, path |-> <<>>, baselen |-> 0, k |-> 1,
   res |-> NoTriple]

NPEEnter(path_without_drive, path_err, native_root, native_cwd, join_name) ==
  [NPEIdle EXCEPT !.pc = "begin", !.path_without_drive = path_without_drive,
                  !.path_err = path_err, !.native_root = native_root,
                  !.native_cwd = native_cwd, !.join_name = join_name]

\* the check of the root made before the check for a forward slash
NPEBegin_RootFirst(n) ==
  LET p == n.path_without_drive
      split == IF p # <<>> /\ p[1] = Backslash
                 THEN Split(p, Backslash)
                 ELSE Split(n.native_cwd, Sep) \o Split(p, Backslash)
      stripped == [j \in 1..Len(split) |-> Strip(split[j])]
      pop == ~(n.join_name \/ stripped = <<>>)
      name == IF pop THEN stripped[Len(stripped)] ELSE <<>>
      rest == IF pop THEN SubSeq(stripped, 1, Len(stripped) - 1) ELSE stripped
      root == n.native_root
  IN IF root = <<>>
       THEN [n EXCEPT !.res = [NoTriple EXCEPT !.kind = "raise",
                                               !.err = "PATH_NOT_FOUND"],
                      !.pc = "done"]
     ELSE IF Sep \in Chars(p)
       THEN [n EXCEPT !.res = [NoTriple EXCEPT !.kind = "raise",
                                               !.err = "BAD_FILE_NUMBER"],
                      !.pc = "done"]
     ELSE [n EXCEPT !.elements = dos_normpath(rest), !.name = name,
                    !.path = root,
                    !.baselen = Len(root) + (IF root[Len(root)] # Sep THEN 1 ELSE 0),
                    !.k = 1, !.pc = "loop"]

\* the walk over the elements as split, "." and ".." left in
NPEBegin_NoNorm(n) ==
  LET p == n.path_without_drive
      split == IF p # <<>> /\ p[1] = Backslash
                 THEN Split(p, Backslash)
                 ELSE Split(n.native_cwd, Sep) \o Split(p, Backslash)
      stripped == [j \in 1..Len(split) |-> Strip(split[j])]
      pop == ~(n.join_name \/ stripped = <<>>)
      name == IF pop THEN stripped[Len(stripped)] ELSE <<>>
      rest == IF pop THEN SubSeq(stripped, 1, Len(stripped) - 1) ELSE stripped
      root == n.native_root
  IN IF Sep \in Chars(p)
       THEN [n EXCEPT !.res = [NoTriple EXCEPT !.kind = "raise",
                                               !.err = "BAD_FILE_NUMBER"],
                      !.pc = "done"]
     ELSE IF root = <<>>
       THEN [n EXCEPT !.res = [NoTriple EXCEPT !.kind = "raise",
                                               !.err = "PATH_NOT_FOUND"],
                      !.pc = "done"]
     ELSE [n EXCEPT !.elements = rest, !.name = name,
                    !.path = root,
                    !.baselen = Len(root) + (IF root[Len(root)] # Sep THEN 1 ELSE 0),
                    !.k = 1, !.pc = "loop"]

\* the checks, the list of elements, the name and the normalised list
NPEBegin(n) ==
  LET p == n.path_without_drive
      split == IF p # <<>> /\ p[1] = Backslash
                 THEN Split(p, Backslash)
                 ELSE Split(n.native_cwd, Sep) \o Split(p, Backslash)
      stripped == [j \in 1..Len(split) |-> Strip(split[j])]
      pop == ~(n.join_name \/ stripped = <<>>)
      name == IF pop THEN stripped[Len(stripped)] ELSE <<>>
      rest == IF pop THEN SubSeq(stripped, 1, Len(stripped) - 1) ELSE stripped
      root == n.native_root
  IN IF Sep \in Chars(p)
       THEN [n EXCEPT !.res = [NoTriple EXCEPT !.kind = "raise",
                                               !.err = "BAD_FILE_NUMBER"],
                      !.pc = "done"]
     ELSE IF root = <<>>
       THEN [n EXCEPT !.res = [NoTriple EXCEPT !.kind = "raise",
                                               !.err = "PATH_NOT_FOUND"],
                      !.pc = "done"]
     ELSE [n EXCEPT !.elements = dos_normpath(rest), !.name = name,
                    !.path = root,
                    !.baselen = Len(root) + (IF root[Len(root)] # Sep THEN 1 ELSE 0),
                    !.k = 1, !.pc = "loop"]

\* the walk going on with the element as given when no match was found
NPEJoin_Swallow(n, res) ==
  IF res.kind = "return"
    THEN [n EXCEPT !.path = os_path_join(n.path, res.name), !.k = n.k + 1,
                   !.pc = "loop"]
    ELSE [n EXCEPT !.path = os_path_join(n.path, n.elements[n.k]),
                   !.k = n.k + 1, !.pc = "loop"]

\* append the found name to the path, or let the error through
NPEJoin(n, res) ==
  IF res.kind = "return"
    THEN [n EXCEPT !.path = os_path_join(n.path, res.name), !.k = n.k + 1,
                   !.pc = "loop"]
    ELSE [n EXCEPT !.res = [NoTriple EXCEPT !.kind = "raise", !.err = res.err],
                   !.pc = "done"]

\* return drive root path, relative path, file name
NPEReturn(n) ==
  [n EXCEPT !.res = [kind |-> "return", root |-> Take(n.path, n.baselen),
                     rel |-> Drop(n.path, n.baselen), name |-> n.name,
                     err |-> ""],
            !.pc = "done"]

----------------------------------------------------------------------------
(* Bounds and inputs *)

\* the most entries a directory of the match_filename runs holds
MaxEntries == 2

\* the most backslash-separated elements of a path given to native_path_elements
MaxElems == 3

\* the longest list given to dos_normpath alone
MaxNormLen == 3

\* the mounted directory
MountDir == Str(<<"/", "r">>)

MountNode == <<Str(<<"r">>)>>

\* names a directory may hold
CandNames ==
  {Str(<<"A", "B">>), Str(<<"A", "b">>), Str(<<"a", "b">>),
   Str(<<"a", "b", ".">>), Str(<<"a", "b", ".", "b", "a", "s">>),
   Str(<<"a", "*">>), Str(<<" ", "A", "B">>),
   Str(<<"L", "o", "n", "g", "F", "i", "l", "e", "N", "a", "m", "e">>)}

\* names asked of match_filename
RawNames ==
  {Str(<<"A", "B">>), Str(<<"a", "b">>), Str(<<"a", "b", ".">>),
   Str(<<"a", "b", ".", ".">>), Str(<<"a", "*">>), Str(<<"a", "#">>),
   Str(<<"a", "&">>), Str(<<"a", "%">>), Str(<<".">>),
   Str(<<"L", "O", "N", "G", "F", "I", "L", "E">>),
   Str(<<"L", "o", "n", "g", "F", "i", "l", "e", "N", "a", "m", "e">>),
   Str(<<"L", "o", "n", "g", "F", "i", "l", "e", "N", "a", "m", "e", ".">>)}

DefExts == {<<>>, Str(<<"B", "A", "S">>)}

NameErrs == {"", "FILE_NOT_FOUND"}

\* the tree with the mounted directory holding the names of S, of kinds kind
MatchTree(S, kind) ==
  [p \in {Root, MountNode} \cup {Append(MountNode, n) : n \in S} |->
     IF Len(p) < 2 THEN "dir" ELSE kind[p[2]]]

MatchTrees ==
  UNION {{MatchTree(S, kind) : kind \in [S -> {"file", "dir"}]} :
           S \in {T \in SUBSET CandNames : Cardinality(T) <= MaxEntries}}

\* elements of the paths asked of native_path_elements
PathElems == {Str(<<"A">>), Str(<<"b">>), Str(<<".">>), Str(<<".", ".">>)}

RECURSIVE JoinWith(_, _)
JoinWith(es, c) ==
  IF Len(es) = 1 THEN es[1] ELSE es[1] \o <<c>> \o JoinWith(Tail(es), c)

ElemLists(S, n) == UNION {[1..k -> S] : k \in 1..n}

\* paths with a forward slash, a double backslash, blanks, a bad character
OddPaths ==
  {Str(<<"A", "/", "b">>), Str(<<"\\", "A", "\\", "\\", "b", "\\", "x">>),
   Str(<<" ", "a", " ", "\\", "B", " ", "\\", "x">>),
   Str(<<"A", "\\", "a", "*", "\\", "b", "\\", "x">>),
   Str(<<"A", "\\", "b", ".", "\\", "x">>), <<>>}

DosPaths ==
  {JoinWith(es, Backslash) : es \in ElemLists(PathElems, MaxElems)}
    \cup {<<Backslash>> \o JoinWith(es, Backslash) :
            es \in ElemLists(PathElems, MaxElems)}
    \cup OddPaths

NativeRoots == {<<>>, MountDir, MountDir \o <<Sep>>}

NativeCwds == {<<>>, Str(<<"A">>)}

PathErrs == {"", "PATH_NOT_FOUND"}

\* a tree from a set of node paths that are directories and one of files
Tree(dirs, files) ==
  [p \in {Root, MountNode} \cup dirs \cup files |->
     IF p \in files THEN "file" ELSE "dir"]

PathTrees ==
  {Tree({}, {}),
   Tree({MountNode \o <<Str(<<"A">>)>>,
         MountNode \o <<Str(<<"A">>), Str(<<"b">>)>>}, {}),
   Tree({MountNode \o <<Str(<<"a">>)>>,
         MountNode \o <<Str(<<"a">>), Str(<<"B">>)>>},
        {MountNode \o <<Str(<<"A">>)>>})}

NormElems == {<<>>, Str(<<".">>), Str(<<".", ".">>), Str(<<"A">>), Str(<<"b">>)}

NormIdle == [pc |-> "idle", input |-> <<>>, elements |-> <<>>, i |-> 0]

\* the frame of one application of a name function: its operation, its
\* arguments and, once applied, its value
PFIdle ==
  [pc |-> "idle", op |-> "", trunk |-> <<>>, ext |-> <<>>, name |-> <<>>,
   mask |-> <<>>, mark_shortened |-> FALSE, files_list |-> <<>>,
   joined |-> <<>>, parts |-> <<>>, matched |-> FALSE, names |-> <<>>]

----------------------------------------------------------------------------
(* The state machine *)

Idle == mf.pc = "idle" /\ npe.pc = "idle" /\ nrm.pc = "idle"

InitIdle ==
  /\ npe = NPEIdle
  /\ mf = MFIdle
  /\ ops = <<>>
  /\ calls = <<>>
  /\ nrm = NormIdle
  /\ pf = PFIdle
  /\ changes = 0

\* a caller asks match_filename for the final name in the mounted directory
CallMatchFilename ==
  /\ Idle
  /\ \E name \in RawNames, defext \in DefExts, name_err \in NameErrs,
        isdir \in BOOLEAN :
       mf' = MFEnter(name, defext, MountDir, name_err, isdir)
  /\ UNCHANGED <<fs, unreadable, npe, ops, calls, nrm, pf, changes>>

MFTake(s) ==
  /\ mf' = s.m
  /\ ops' = ops \o s.log
  /\ UNCHANGED <<fs, unreadable, npe, calls, nrm, pf, changes>>

MF_Begin == mf.pc = "begin" /\ MFTake(MFBegin(fs, mf))

MF_Exact == mf.pc = "exact" /\ MFTake(MFExact(fs, mf))

MF_Dossify == mf.pc = "dossify" /\ MFTake(MFDossify(mf))

MD_Probe == mf.pc = "md_probe" /\ MFTake(MDProbe(fs, mf))

MD_List == mf.pc = "md_list" /\ MFTake(MDList(fs, unreadable, mf))

MD_Scan == mf.pc = "md_scan" /\ MFTake(MDScan(fs, mf))

MF_Finish == mf.pc = "finish" /\ MFTake(MFFinish(mf))

MFNext ==
  \/ MF_Begin
  \/ MF_Exact
  \/ MF_Dossify
  \/ MD_Probe
  \/ MD_List
  \/ MD_Scan
  \/ MF_Finish

CallNativePathElements ==
  /\ Idle
  /\ \E p \in DosPaths, path_err \in PathErrs, native_root \in NativeRoots,
        native_cwd \in NativeCwds, join_name \in BOOLEAN :
       npe' = NPEEnter(p, path_err, native_root, native_cwd, join_name)
  /\ UNCHANGED <<fs, unreadable, mf, ops, calls, nrm, pf, changes>>

NPE_Begin ==
  /\ npe.pc = "begin"
  /\ npe' = NPEBegin(npe)
  /\ UNCHANGED <<fs, unreadable, mf, ops, calls, nrm, pf, changes>>

\* skip double slashes
NPE_Skip ==
  /\ npe.pc = "loop"
  /\ npe.k <= Len(npe.elements)
  /\ npe.elements[npe.k] = <<>>
  /\ npe' = [npe EXCEPT !.k = npe.k + 1]
  /\ UNCHANGED <<fs, unreadable, mf, ops, calls, nrm, pf, changes>>

\* find a matching directory for the step
NPE_Call ==
  /\ npe.pc = "loop"
  /\ npe.k <= Len(npe.elements)
  /\ npe.elements[npe.k] # <<>>
  /\ mf' = MFEnter(npe.elements[npe.k], <<>>, npe.path, npe.path_err, TRUE)
  /\ calls' = Append(calls, [name |-> npe.elements[npe.k], defext |-> <<>>,
                             path |-> npe.path, name_err |-> npe.path_err,
                             isdir |-> TRUE, res |-> NoResult])
  /\ npe' = [npe EXCEPT !.pc = "wait"]
  /\ UNCHANGED <<fs, unreadable, ops, nrm, pf, changes>>

NPE_Join ==
  /\ npe.pc = "wait"
  /\ mf.pc = "done"
  /\ npe' = NPEJoin(npe, mf.res)
  /\ mf' = MFIdle
  /\ calls' = [calls EXCEPT ![Len(calls)].res = mf.res]
  /\ UNCHANGED <<fs, unreadable, ops, nrm, pf, changes>>

NPE_Return ==
  /\ npe.pc = "loop"
  /\ npe.k > Len(npe.elements)
  /\ npe' = NPEReturn(npe)
  /\ UNCHANGED <<fs, unreadable, mf, ops, calls, nrm, pf, changes>>

CallNormpath ==
  /\ Idle
  /\ \E elements \in {<<>>} \cup ElemLists(NormElems, MaxNormLen) :
       nrm' = [pc |-> "loop", input |-> elements, elements |-> elements, i |-> 0]
  /\ UNCHANGED <<fs, unreadable, npe, mf, ops, calls, pf, changes>>

Norm_Step ==
  /\ nrm.pc = "loop"
  /\ nrm.i < Len(nrm.elements)
  /\ LET st == NormStep([elements |-> nrm.elements, i |-> nrm.i])
     IN nrm' = [nrm EXCEPT !.elements = st.elements, !.i = st.i]
  /\ UNCHANGED <<fs, unreadable, npe, mf, ops, calls, pf, changes>>

Norm_Return ==
  /\ nrm.pc = "loop"
  /\ nrm.i >= Len(nrm.elements)
  /\ nrm' = [nrm EXCEPT !.pc = "done"]
  /\ UNCHANGED <<fs, unreadable, npe, mf, ops, calls, pf, changes>>

\* match_filename in one directory
InitMatch == fs \in MatchTrees /\ unreadable = {} /\ InitIdle

NextMatch == CallMatchFilename \/ MFNext

SpecMatch == InitMatch /\ [][NextMatch]_vars

\* match_filename in a directory that may be searched but not listed
DeniedNames ==
  {Str(<<"A", "B">>), Str(<<"a", "b">>), Str(<<"a", "b", ".", "b", "a", "s">>),
   Str(<<"a", "b", ".", ".">>),
   Str(<<"L", "o", "n", "g", "F", "i", "l", "e", "N", "a", "m", "e">>)}

DeniedTrees ==
  UNION {{MatchTree(S, kind) : kind \in [S -> {"file", "dir"}]} :
           S \in {T \in SUBSET DeniedNames : Cardinality(T) <= MaxEntries}}

InitDenied ==
  /\ fs \in DeniedTrees
  /\ unreadable \in SUBSET {MountNode}
  /\ InitIdle

NextDenied == CallMatchFilename \/ MFNext

SpecDenied == InitDenied /\ [][NextDenied]_vars

\* match_filename while another process changes the directory
MaxChanges == 2

RaceNames == {Str(<<"A", "B">>), Str(<<"a", "b">>), Str(<<"a", "b", ".">>)}

RaceTrees ==
  UNION {{MatchTree(S, kind) : kind \in [S -> {"file", "dir"}]} :
           S \in {T \in SUBSET RaceNames : Cardinality(T) <= MaxEntries}}

InitRace == fs \in RaceTrees /\ unreadable = {} /\ InitIdle

CallMatchRace ==
  /\ Idle
  /\ \E name \in RaceNames, name_err \in NameErrs, isdir \in BOOLEAN :
       mf' = MFEnter(name, <<>>, MountDir, name_err, isdir)
  /\ UNCHANGED <<fs, unreadable, npe, ops, calls, nrm, pf, changes>>

\* the tree f with the entry n of the mounted directory removed
Removed(f, n) ==
  [p \in DOMAIN f \ {Append(MountNode, n)} |-> f[p]]

\* the tree f with the entry n of the mounted directory made, of a kind
Made(f, n, kind) ==
  [p \in DOMAIN f \cup {Append(MountNode, n)} |->
     IF p = Append(MountNode, n) THEN kind ELSE f[p]]

\* another process removes or makes an entry while the call is running
EnvChange ==
  /\ mf.pc \notin {"idle", "done"}
  /\ changes < MaxChanges
  /\ \E n \in RaceNames :
       \/ Append(MountNode, n) \in DOMAIN fs /\ fs' = Removed(fs, n)
       \/ /\ Append(MountNode, n) \notin DOMAIN fs
          /\ \E kind \in {"file", "dir"} : fs' = Made(fs, n, kind)
  /\ changes' = changes + 1
  /\ UNCHANGED <<unreadable, npe, mf, ops, calls, nrm, pf>>

NextRace == CallMatchRace \/ MFNext \/ EnvChange

SpecRace == InitRace /\ [][NextRace]_vars

\* native_path_elements over a tree
InitPath == fs \in PathTrees /\ unreadable = {} /\ InitIdle

NextPath ==
  \/ CallNativePathElements
  \/ NPE_Begin
  \/ NPE_Skip
  \/ NPE_Call
  \/ NPE_Join
  \/ NPE_Return
  \/ MFNext

SpecPath == InitPath /\ [][NextPath]_vars

\* dos_normpath alone
InitNorm == fs = Tree({}, {}) /\ unreadable = {} /\ InitIdle

NextNorm == CallNormpath \/ Norm_Step \/ Norm_Return

SpecNorm == InitNorm /\ [][NextNorm]_vars

----------------------------------------------------------------------------
(* What the claims speak of *)

\* the existence check of the host finds name in directory path, of the
\* kind asked for ("." and "" name the directory itself)
EntryOfKind(f, path, name, isdir) == istype(f, path, name, isdir)

SingleTrailingDot(name) ==
  /\ name # <<>>
  /\ name[Len(name)] = Dot
  /\ Dot \notin Chars(SubSeq(name, 1, Len(name) - 1))

Dotless(name) == SubSeq(name, 1, Len(name) - 1)

\* the name as constructed from the arguments of a call: the default
\* extension appended, or a trailing single dot kept if such an entry exists
\* and dropped if not
Constructed(f, path, raw, defext, isdir) ==
  IF defext # <<>> /\ Dot \notin Chars(raw) THEN raw \o <<Dot>> \o defext
  ELSE IF SingleTrailingDot(raw) /\ ~EntryOfKind(f, path, raw, isdir)
    THEN Dotless(raw)
  ELSE raw

\* the name the finished or running call of match_filename is resolving
Resolving == Constructed(fs, mf.path, mf.raw, mf.defext, mf.isdir)

\* the canonical 8.3 form of a name
Canonical(name) ==
  LET te == split_dosname(name, FALSE) IN join_dosname(te[1], te[2], FALSE)

AllAllowable(name) ==
  LET te == split_dosname(name, FALSE)
  IN (Chars(te[1]) \cup Chars(te[2])) \subseteq ALLOWABLE_CHARS

\* the entries of the kind asked for whose 8.3 split is that of the
\* canonical form of name
Colliding(f, path, name, isdir) ==
  {n \in Entries(f, path) :
     /\ EntryOfKind(f, path, n, isdir)
     /\ split_dosname(n, FALSE) = split_dosname(Canonical(name), FALSE)}

MFDone == mf.pc = "done" /\ npe.pc = "idle"

HasOp(kind) == \E j \in 1..Len(ops) : ops[j].op = kind

----------------------------------------------------------------------------
(* Claims on match_filename, checked under SpecMatch *)

ProbedAbsent(name) ==
  [op |-> "istype", path |-> mf.path, name |-> name, isdir |-> mf.isdir,
   res |-> FALSE]

\* C1: the check of the characters and the listing of the directory come
\* only after a probe of the name as constructed has found nothing; when an
\* entry of that very name and the kind asked for exists, match_filename
\* returns that name and neither checks the characters nor lists the directory
C1_ExactBeforeDossify ==
  /\ \A j \in 1..Len(ops) :
       ops[j].op \in {"check", "listdir"} =>
         \E k \in 1..(j - 1) : ops[k] = ProbedAbsent(Resolving)
  /\ (MFDone /\ EntryOfKind(fs, mf.path, Resolving, mf.isdir)) =>
       /\ mf.res = Return(Resolving)
       /\ ~HasOp("check")
       /\ ~HasOp("listdir")

\* an existing name with a character that is not allowable has been returned
C1_Witness ==
  /\ MFDone
  /\ mf.raw = Str(<<"a", "*">>)
  /\ mf.defext = <<>>
  /\ EntryOfKind(fs, mf.path, mf.raw, mf.isdir)
  /\ mf.res = Return(Str(<<"a", "*">>))

IsUpper83(name) ==
  LET te == Split1(name, Dot)
  IN /\ Upper(name) = name
     /\ Len(te[1]) <= 8
     /\ Len(te) = 2 => Len(te[2]) <= 3

\* C2: when neither the name as constructed nor an entry with its 8.3 form
\* exists with the kind asked for and all characters are allowable, a call
\* without error kind returns the upper-case 8.3 join of the split of the
\* constructed name, and a call with an error kind raises that error
C2_NotFound ==
  (/\ MFDone
   /\ ~EntryOfKind(fs, mf.path, Resolving, mf.isdir)
   /\ Colliding(fs, mf.path, Resolving, mf.isdir) = {}
   /\ AllAllowable(Resolving))
  => LET built == IF mf.defext # <<>> /\ Dot \notin Chars(mf.raw)
                    THEN mf.raw \o <<Dot>> \o mf.defext
                    ELSE IF SingleTrailingDot(mf.raw) THEN Dotless(mf.raw)
                    ELSE mf.raw
     IN IF mf.name_err = ""
          THEN /\ mf.res = Return(Canonical(built))
               /\ IsUpper83(mf.res.name)
          ELSE mf.res = Raise(mf.name_err)

\* "ab" with default extension "BAS" was made into the new name "AB.BAS"
C2_Witness ==
  /\ MFDone
  /\ mf.raw = Str(<<"a", "b">>)
  /\ mf.defext = Str(<<"B", "A", "S">>)
  /\ mf.name_err = ""
  /\ Colliding(fs, mf.path, Resolving, mf.isdir) = {}
  /\ mf.res = Return(Str(<<"A", "B", ".", "B", "A", "S">>))

AlNum == (65..90) \cup (97..122) \cup (48..57)

AbsentAsTyped ==
  /\ ~EntryOfKind(fs, mf.path, mf.raw, mf.isdir)
  /\ ~EntryOfKind(fs, mf.path, Resolving, mf.isdir)

BadFileName == Raise("BAD_FILE_NAME")

\* C3 as stated: a name absent as typed resolves without BadFileName if it
\* holds "#" or "&", and fails with BadFileName if it holds "%"
C3_Original ==
  (MFDone /\ AbsentAsTyped) =>
    /\ (/\ Chars(mf.raw) \cap {Ord["#"], Ord["&"]} # {}
        /\ Chars(mf.raw) \subseteq AlNum \cup {Ord["#"], Ord["&"]})
       => mf.res # BadFileName
    /\ Ord["%"] \in Chars(mf.raw) => mf.res = BadFileName

\* C3 amended: a name absent as typed that holds "#", "&" or "%" and
\* otherwise letters and digits resolves without BadFileName; one with "*"
\* in its 8.3 trunk or extension fails with BadFileName; in either mode
C3_Allowable ==
  (MFDone /\ AbsentAsTyped) =>
    /\ (/\ Chars(mf.raw) \cap {Ord["#"], Ord["&"], Ord["%"]} # {}
        /\ Chars(mf.raw) \subseteq AlNum \cup {Ord["#"], Ord["&"], Ord["%"]})
       => mf.res # BadFileName
    /\ LET te == split_dosname(Resolving, FALSE)
       IN Ord["*"] \in Chars(te[1]) \cup Chars(te[2]) => mf.res = BadFileName

\* "a%" was resolved to a new name
C3_Witness ==
  /\ MFDone
  /\ mf.raw = Str(<<"a", "%">>)
  /\ AbsentAsTyped
  /\ mf.res.kind = "return"

\* C4 as stated: a name ending in a single dot resolves to the dotted name
\* if that entry exists, else as the dotless name with no default extension
C4_Original ==
  (MFDone /\ SingleTrailingDot(mf.raw)) =>
    IF EntryOfKind(fs, mf.path, mf.raw, mf.isdir)
      THEN mf.res = Return(mf.raw)
      ELSE mf.res = match_filename(fs, unreadable, Dotless(mf.raw), <<>>,
                                   mf.path, mf.name_err, mf.isdir)

\* C4 amended: the same for a name of some characters and then a single dot
C4_TrailingDot ==
  (MFDone /\ SingleTrailingDot(mf.raw) /\ Len(mf.raw) > 1) =>
    IF EntryOfKind(fs, mf.path, mf.raw, mf.isdir)
      THEN mf.res = Return(mf.raw)
      ELSE mf.res = match_filename(fs, unreadable, Dotless(mf.raw), <<>>,
                                   mf.path, mf.name_err, mf.isdir)

\* "ab." was resolved to "ab" in a directory with the only entry "ab"
C4_Witness ==
  /\ MFDone
  /\ mf.raw = Str(<<"a", "b", ".">>)
  /\ mf.defext = Str(<<"B", "A", "S">>)
  /\ Entries(fs, mf.path) = {Str(<<"a", "b">>)}
  /\ mf.res = Return(Str(<<"a", "b">>))

First(S) == CHOOSE x \in S : \A y \in S \ {x} : StrLess(x, y)

\* C5 as stated: of several entries of the kind asked for with the DosName
\* of the name resolved, the first in sorted order is returned
C5_Original ==
  (MFDone /\ Cardinality(Colliding(fs, mf.path, Resolving, mf.isdir)) > 1) =>
    mf.res = Return(First(Colliding(fs, mf.path, Resolving, mf.isdir)))

\* C5 amended: so it is when the characters are allowable and neither the
\* name as constructed nor its canonical 8.3 form is itself such an entry
C5_FirstSorted ==
  (/\ MFDone
   /\ Cardinality(Colliding(fs, mf.path, Resolving, mf.isdir)) > 1
   /\ AllAllowable(Resolving)
   /\ ~EntryOfKind(fs, mf.path, Resolving, mf.isdir)
   /\ ~EntryOfKind(fs, mf.path, Canonical(Resolving), mf.isdir))
  => mf.res = Return(First(Colliding(fs, mf.path, Resolving, mf.isdir)))

\* with "Ab" and "ab.bas" aside, "ab" with "ab." or " AB": a scan that
\* met two entries of one DosName returned the first
C5_Witness ==
  /\ MFDone
  /\ Cardinality(Colliding(fs, mf.path, Resolving, mf.isdir)) > 1
  /\ HasOp("listdir")
  /\ mf.res = Return(First(Colliding(fs, mf.path, Resolving, mf.isdir)))

\* the call returned an entry that the loop over the listing found
FoundByScan ==
  /\ MFDone
  /\ mf.res.kind = "return"
  /\ HasOp("listdir")
  /\ mf.fullname = Some(mf.res.name)

\* C6 as stated: an entry found by the scan has the kind asked for and its
\* short_name is the canonical 8.3 form of the name resolved
C6_Original ==
  FoundByScan =>
    /\ EntryOfKind(fs, mf.path, mf.res.name, mf.isdir)
    /\ LET sn == short_name(mf.path, mf.res.name)
       IN join_dosname(sn[1], sn[2], FALSE) = Canonical(Resolving)

\* C6 amended: an entry found by the scan has the kind asked for and its
\* split_dosname without "+" marks is that of the canonical 8.3 form
C6_ScanMatch ==
  FoundByScan =>
    /\ EntryOfKind(fs, mf.path, mf.res.name, mf.isdir)
    /\ split_dosname(mf.res.name, FALSE)
         = split_dosname(Canonical(Resolving), FALSE)

\* "LONGFILE" was resolved to the entry "LongFileName"
C6_Witness ==
  /\ FoundByScan
  /\ mf.raw = Str(<<"L", "O", "N", "G", "F", "I", "L", "E">>)
  /\ mf.res.name = Str(<<"L", "o", "n", "g", "F", "i", "l", "e", "N", "a", "m", "e">>)

----------------------------------------------------------------------------
(* Claims on native_path_elements (SpecPath) and dos_normpath (SpecNorm) *)

RaiseTriple(err) == [NoTriple EXCEPT !.kind = "raise", !.err = err]

\* C7: a path with a forward slash fails with BadFileNumber, also when the
\* root is empty; an empty root fails with PathNotFound otherwise; either
\* failure comes before any lookup and returns nothing
C7_EarlyFailures ==
  /\ npe.pc \in {"idle", "begin"} => ops = <<>> /\ calls = <<>>
  /\ (npe.pc \notin {"idle", "begin"} /\ Sep \in Chars(npe.path_without_drive)) =>
       /\ npe.pc = "done"
       /\ npe.res = RaiseTriple("BAD_FILE_NUMBER")
       /\ ops = <<>> /\ calls = <<>>
  /\ (/\ npe.pc \notin {"idle", "begin"}
      /\ Sep \notin Chars(npe.path_without_drive)
      /\ npe.native_root = <<>>) =>
       /\ npe.pc = "done"
       /\ npe.res = RaiseTriple("PATH_NOT_FOUND")
       /\ ops = <<>> /\ calls = <<>>

\* a path with a forward slash on an empty root has failed with BadFileNumber
C7_Witness ==
  /\ npe.pc = "done"
  /\ Sep \in Chars(npe.path_without_drive)
  /\ npe.native_root = <<>>
  /\ npe.res = RaiseTriple("BAD_FILE_NUMBER")

\* "." dropped, ".." dropped with the element last kept, if there is one
RECURSIVE StackNorm(_, _)
StackNorm(rest, stack) ==
  IF rest = <<>> THEN stack
  ELSE IF Head(rest) = <<Dot>> THEN StackNorm(Tail(rest), stack)
  ELSE IF Head(rest) = <<Dot, Dot>>
    THEN StackNorm(Tail(rest),
                   IF stack = <<>> THEN stack
                   ELSE SubSeq(stack, 1, Len(stack) - 1))
  ELSE StackNorm(Tail(rest), Append(stack, Head(rest)))

\* a is b with some elements left out
RECURSIVE IsSubSeq(_, _)
IsSubSeq(a, b) ==
  IF a = <<>> THEN TRUE
  ELSE IF b = <<>> THEN FALSE
  ELSE IF Head(a) = Head(b) THEN IsSubSeq(Tail(a), Tail(b))
  ELSE IsSubSeq(a, Tail(b))

IsDots(e) == e = <<Dot>> \/ e = <<Dot, Dot>>

\* C9: dos_normpath returns the list with every "." removed and every ".."
\* removed with the nearest element kept before it, a ".." with nothing
\* before it just dropped, the rest in their order; no "." or ".." is left
C9_Normpath ==
  /\ nrm.pc = "loop" =>
       \A j \in 1..nrm.i : j <= Len(nrm.elements) => ~IsDots(nrm.elements[j])
  /\ nrm.pc = "done" =>
       /\ nrm.elements = StackNorm(nrm.input, <<>>)
       /\ \A j \in 1..Len(nrm.elements) : ~IsDots(nrm.elements[j])
       /\ IsSubSeq(nrm.elements, nrm.input)

\* <<"..", "A", "..">> was normalised to the empty list
C9_Witness ==
  /\ nrm.pc = "done"
  /\ nrm.input = <<Str(<<".", ".">>), Str(<<"A">>), Str(<<".", ".">>)>>
  /\ nrm.elements = <<>>

NonEmpty(e) == e # <<>>

\* the elements of the call as split and stripped
SplitElems ==
  LET p == npe.path_without_drive
      split == IF p # <<>> /\ p[1] = Backslash
                 THEN Split(p, Backslash)
                 ELSE Split(npe.native_cwd, Sep) \o Split(p, Backslash)
  IN [j \in 1..Len(split) |-> Strip(split[j])]

\* the bare name the call is to return
BareName ==
  IF npe.join_name THEN <<>> ELSE SplitElems[Len(SplitElems)]

\* the elements the call is to look up, in their order
ExpectedElems ==
  LET dirs == IF npe.join_name THEN SplitElems
              ELSE SubSeq(SplitElems, 1, Len(SplitElems) - 1)
  IN SelectSeq(StackNorm(dirs, <<>>), NonEmpty)

\* the native path after the first j lookups
RECURSIVE AccPath(_)
AccPath(j) ==
  IF j = 0 THEN npe.native_root
  ELSE os_path_join(AccPath(j - 1), calls[j].res.name)

Walking == npe.pc \in {"loop", "wait", "done"} /\ npe.res.kind # "raise"

\* C10: the lookups made are, in their order, those of the non-empty
\* elements left by the normalisation, each with no default extension, as a
\* directory, in the native path made so far; nothing is looked up before,
\* nor elsewhere, nor for the bare name, which is returned as split off
C10_LookupsAfterNormpath ==
  /\ npe.pc \in {"idle", "begin"} => ops = <<>> /\ calls = <<>>
  /\ \A j \in 1..Len(ops) :
       ops[j].op \in {"istype", "listdir"} =>
         \E k \in 1..Len(calls) : ops[j].path = calls[k].path
  /\ (Walking \/ calls # <<>>) =>
       /\ Len(calls) <= Len(ExpectedElems)
       /\ \A j \in 1..Len(calls) :
            /\ calls[j].name = ExpectedElems[j]
            /\ calls[j].defext = <<>>
            /\ calls[j].isdir
            /\ calls[j].name_err = npe.path_err
            /\ calls[j].path = AccPath(j - 1)
  /\ (npe.pc = "done" /\ npe.res.kind = "return") =>
       /\ Len(calls) = Len(ExpectedElems)
       /\ npe.res.name = BareName
       /\ npe.res.root \o npe.res.rel = AccPath(Len(calls))
       /\ npe.res.rel =
            (IF calls = <<>> THEN <<>>
             ELSE JoinWith([j \in 1..Len(calls) |-> calls[j].res.name], Sep))

\* "\A\..\b" was resolved with no lookup, to no directory and the name "b"
C10_Witness ==
  /\ npe.pc = "done"
  /\ npe.path_without_drive = Str(<<"\\", "A", "\\", ".", ".", "\\", "b">>)
  /\ ~npe.join_name
  /\ calls = <<>> /\ ops = <<>>
  /\ npe.res.kind = "return"
  /\ npe.res.rel = <<>>
  /\ npe.res.name = Str(<<"b">>)

\* the name a lookup resolves
CallName(c) == Constructed(fs, c.path, c.name, c.defext, c.isdir)

\* no native directory is named as the element of the lookup or has its
\* 8.3 form
Unmatched(c) ==
  /\ ~EntryOfKind(fs, c.path, CallName(c), TRUE)
  /\ Colliding(fs, c.path, CallName(c), TRUE) = {}

Finished(c) == c.res.kind # "none"

\* C8 as stated: with an error kind given, the lookup of an element that
\* matches no native directory fails with that error kind
C8_Original ==
  \A j \in 1..Len(calls) :
    (npe.path_err # "" /\ Finished(calls[j]) /\ Unmatched(calls[j])) =>
      calls[j].res = Raise(npe.path_err)

\* C8 amended: with an error kind given, the first element that matches no
\* native directory ends the walk: its lookup fails with that error kind,
\* or with BadFileName if a character of it is not allowable, the call
\* fails with the same error and returns no triple, no later element is
\* looked up; every name joined to the path is an existing directory
C8_FailAtFirstUnmatched ==
  npe.path_err # "" =>
    /\ \A j \in 1..Len(calls) :
         /\ (Finished(calls[j]) /\ Unmatched(calls[j])) =>
              /\ calls[j].res =
                   Raise(IF AllAllowable(CallName(calls[j]))
                           THEN npe.path_err ELSE "BAD_FILE_NAME")
              /\ j = Len(calls)
              /\ npe.pc \in {"wait", "done"}
              /\ npe.pc = "done" => npe.res = RaiseTriple(calls[j].res.err)
         /\ j < Len(calls) => ~Unmatched(calls[j])
         /\ calls[j].res.kind = "return" =>
              os_path_isdir(fs, os_path_join(calls[j].path, calls[j].res.name))
    /\ (npe.pc = "done" /\ npe.res.kind = "return") =>
         /\ Len(calls) = Len(ExpectedElems)
         /\ \A j \in 1..Len(calls) : ~Unmatched(calls[j])
         /\ npe.res.rel = <<>> \/ os_path_isdir(fs, npe.res.root \o npe.res.rel)

\* the second of three elements matched no directory: the call failed with
\* the error kind given and the third was not looked up
C8_Witness ==
  /\ npe.pc = "done"
  /\ npe.path_err = "PATH_NOT_FOUND"
  /\ Len(calls) = 2
  /\ Len(ExpectedElems) = 3
  /\ Unmatched(calls[2])
  /\ npe.res = RaiseTriple("PATH_NOT_FOUND")

----------------------------------------------------------------------------
(* The name functions on their own: split_dosname, join_dosname,           *)
(* match_wildcard and filter_names applied to drawn arguments              *)

\* the longest part drawn character by character
MaxPart == 3

\* allowable characters in upper case: a letter, a digit, a sign, the blank
CodecChars == {Ord["A"], Ord["1"], Ord["#"], Ord[" "]}

Strings(S, n) == UNION {[1..k -> S] : k \in 0..n}

\* trunks: every short one, and whole 8 and 9 character ones
Trunks ==
  Strings(CodecChars, MaxPart)
    \cup {Str(<<"A", "B", "C", "D", "E", "F", "G", "H">>),
          Str(<<"A", "B", "C", "D", "E", "F", "G", " ">>),
          Str(<<"A", "B", "C", "D", "E", "F", "G", "H", "I">>)}

Exts == Strings(CodecChars \ {Ord["1"]}, MaxPart)

\* join_dosname(trunk, ext) is asked for, to be split and joined again
RoundTripInputs ==
  \E t \in Trunks, e \in Exts :
    pf = [PFIdle EXCEPT !.pc = "call", !.op = "roundtrip", !.trunk = t,
                        !.ext = e]

\* name = join_dosname(*split_dosname(join_dosname(trunk, ext)))
RoundTrip ==
  /\ pf.pc = "call"
  /\ pf.op = "roundtrip"
  /\ LET joined == join_dosname(pf.trunk, pf.ext, FALSE)
         parts == split_dosname(joined, FALSE)
     IN pf' = [pf EXCEPT !.pc = "done", !.joined = joined, !.parts = parts,
                         !.name = join_dosname(parts[1], parts[2], FALSE)]
  /\ UNCHANGED <<fs, unreadable, npe, mf, ops, calls, nrm, changes>>

\* a long name in mixed case and a long extension, cut at every length
LongTrunk ==
  Str(<<"L", "o", "n", "g", "F", "i", "l", "e", "N", "a", "m", "e">>)

LongExt == Str(<<"h", "t", "m", "l">>)

SplitNames ==
  {Take(LongTrunk, k) : k \in 0..Len(LongTrunk)}
    \cup {Take(LongTrunk, k) \o <<Dot>> \o Take(LongExt, j) :
            k \in 0..Len(LongTrunk), j \in 0..Len(LongExt)}
    \cup Strings({Ord["A"], Ord[" "], Dot}, MaxPart)
    \cup {Str(<<"A", "B", "C", "D", "E", "F", "G", "H">>),
          Str(<<"A", "B", "C", "D", "E", "F", "G", "H", "I">>),
          Str(<<"A", ".", "B", "C", "D", ".", "E">>)}

SplitInputs ==
  \E n \in SplitNames, b \in BOOLEAN :
    pf = [PFIdle EXCEPT !.pc = "call", !.op = "split", !.name = n,
                        !.mark_shortened = b]

\* parts = split_dosname(name, mark_shortened)
SplitDosname ==
  /\ pf.pc = "call"
  /\ pf.op = "split"
  /\ pf' = [pf EXCEPT !.pc = "done",
                      !.parts = split_dosname(pf.name, pf.mark_shortened)]
  /\ UNCHANGED <<fs, unreadable, npe, mf, ops, calls, nrm, changes>>

\* names with a newline and in both cases, masks with both wildcards
WildNames ==
  Strings({Ord["A"], Ord["a"], Ord["\n"]}, MaxPart)
    \cup {Str(<<"L", "O", "N", "G", "F", "I", "L", "+">>)}

WildMasks ==
  Strings({Ord["A"], Ord["?"], Ord["*"]}, MaxPart)
    \cup {Str(<<"L", "?", "N", "G", "*", "+">>), Str(<<"L", "O", "N", "G">>)}

WildcardInputs ==
  \E n \in WildNames, m \in WildMasks :
    pf = [PFIdle EXCEPT !.pc = "call", !.op = "wildcard", !.name = n,
                        !.mask = m]

\* matched = match_wildcard(name, mask)
MatchWildcard ==
  /\ pf.pc = "call"
  /\ pf.op = "wildcard"
  /\ pf' = [pf EXCEPT !.pc = "done",
                      !.matched = match_wildcard(pf.name, pf.mask)]
  /\ UNCHANGED <<fs, unreadable, npe, mf, ops, calls, nrm, changes>>

\* the longest listing filtered
MaxFiles == 2

\* entries of a listing: ".", "..", a dotfile, names alike in short form
ListedNames ==
  {Str(<<".">>), Str(<<".", ".">>), Str(<<".", "x">>), Str(<<"a", "b">>),
   Str(<<"A", "b">>), Str(<<"a", "b", ".", "b", "a", "s">>),
   Str(<<"b", ".", "a">>), LongTrunk, Str(<<"a", ".", "h", "t", "m", "l">>)}

FilterMasks ==
  {Str(<<"*", ".", "*">>), Str(<<"*">>), Str(<<"a", "*", ".", "*">>),
   Str(<<"*", ".", "b", "?", "s">>), Str(<<".">>), Str(<<".", ".">>),
   Str(<<"?", ".", "*">>), Str(<<"*", ".", "h", "t", "m", "l">>),
   Str(<<"l", "o", "n", "g", "f", "i", "l", "?", ".", "*">>)}

FilterInputs ==
  \E l \in Strings(ListedNames, MaxFiles), m \in FilterMasks :
    pf = [PFIdle EXCEPT !.pc = "call", !.op = "filter", !.files_list = l,
                        !.mask = m]

\* names = filter_names(path, files_list, mask)
FilterNames ==
  /\ pf.pc = "call"
  /\ pf.op = "filter"
  /\ pf' = [pf EXCEPT !.pc = "done",
                      !.names = filter_names(MountDir, pf.files_list, pf.mask)]
  /\ UNCHANGED <<fs, unreadable, npe, mf, ops, calls, nrm, changes>>

PureInputs ==
  RoundTripInputs \/ SplitInputs \/ WildcardInputs \/ FilterInputs

InitPure ==
  /\ fs = Tree({}, {})
  /\ unreadable = {}
  /\ npe = NPEIdle
  /\ mf = MFIdle
  /\ ops = <<>>
  /\ calls = <<>>
  /\ nrm = NormIdle
  /\ changes = 0
  /\ PureInputs

NextPure == RoundTrip \/ SplitDosname \/ MatchWildcard \/ FilterNames

SpecPure == InitPure /\ [][NextPure]_vars

----------------------------------------------------------------------------
(* C11: the round trip of a canonical name *)

\* a part of a canonical 8.3 name: allowable characters, none in lower case
Canonical83(trunk, ext) ==
  /\ Len(trunk) <= 8
  /\ Len(ext) <= 3
  /\ Chars(trunk) \cup Chars(ext) \subseteq ALLOWABLE_CHARS \ (97..122)

RoundTripped == pf.pc = "done" /\ pf.op = "roundtrip"

EdgeBlank(name) ==
  name # <<>> /\ (name[1] = Ord[" "] \/ name[Len(name)] = Ord[" "])

\* C11 as stated: for every trunk of at most 8 and extension of at most 3
\* allowable upper-case characters, joining, splitting and joining again
\* gives the joined name back.
C11_Original ==
  (RoundTripped /\ Canonical83(pf.trunk, pf.ext)) => pf.name = pf.joined

\* C11: for every trunk of at most 8 and extension of at most 3 allowable
\* upper-case characters whose joined name neither begins nor ends with a
\* blank, joining, splitting and joining again gives the joined name back,
\* and the split gives the trunk and the extension back.
C11_RoundTrip ==
  (RoundTripped /\ Canonical83(pf.trunk, pf.ext) /\ ~EdgeBlank(pf.joined))
    => /\ pf.name = pf.joined
       /\ pf.parts = <<pf.trunk, pf.ext>>

\* a full 8.3 name with a blank inside has made the round trip
C11_Witness ==
  /\ RoundTripped
  /\ pf.trunk = Str(<<"A", "B", "C", "D", "E", "F", "G", " ">>)
  /\ pf.ext = Str(<<"A", " ", "#">>)
  /\ pf.name = Str(<<"A", "B", "C", "D", "E", "F", "G", " ", ".", "A", " ", "#">>)

----------------------------------------------------------------------------
(* C12: marking of shortened parts *)

SplitDone == pf.pc = "done" /\ pf.op = "split"

\* the name as DOS sees it: no blanks around it, in upper case
DosForm(name) == Upper(Strip(name))

\* the position of the first dot, past the end if there is none
FirstDot(n) ==
  IF Dot \in Chars(n)
    THEN CHOOSE k \in 1..Len(n) :
           n[k] = Dot /\ \A j \in 1..(k - 1) : n[j] # Dot
    ELSE Len(n) + 1

\* what is before the first dot, and what is after it
TrunkPart(n) == SubSeq(n, 1, FirstDot(n) - 1)

ExtPart(n) == SubSeq(n, FirstDot(n) + 1, Len(n))

Marked(part, n) ==
  IF Len(part) <= n THEN part ELSE SubSeq(part, 1, n - 1) \o Str(<<"+">>)

\* C12: with mark_shortened a trunk of at most 8 characters is returned
\* unchanged and a longer one as its first 7 characters and "+", an extension
\* of at most 3 characters unchanged and a longer one as its first 2
\* characters and "+", each part on its own; in every mode the trunk has at
\* most 8 and the extension at most 3 characters.
C12_MarkShortened ==
  SplitDone =>
    /\ pf.mark_shortened =>
         /\ pf.parts[1] = Marked(TrunkPart(DosForm(pf.name)), 8)
         /\ pf.parts[2] = Marked(ExtPart(DosForm(pf.name)), 3)
    /\ (pf.mark_shortened
         /\ pf.name = Str(<<"A", "B", "C", "D", "E", "F", "G", "H">>))
         => pf.parts = <<Str(<<"A", "B", "C", "D", "E", "F", "G", "H">>), <<>> >>
    /\ (pf.mark_shortened
         /\ pf.name = Str(<<"A", "B", "C", "D", "E", "F", "G", "H", "I">>))
         => pf.parts = <<Str(<<"A", "B", "C", "D", "E", "F", "G", "+">>), <<>> >>
    /\ Len(pf.parts[1]) <= 8
    /\ Len(pf.parts[2]) <= 3

\* a long trunk was marked beside a three character extension left alone
C12_Witness ==
  /\ SplitDone
  /\ pf.mark_shortened
  /\ pf.name = LongTrunk \o <<Dot>> \o Str(<<"h", "t", "m">>)
  /\ pf.parts = <<Str(<<"L", "O", "N", "G", "F", "I", "L", "+">>),
                  Str(<<"H", "T", "M">>)>>

----------------------------------------------------------------------------
(* C13: the wildcard matcher *)

WildcardDone == pf.pc = "done" /\ pf.op = "wildcard"

\* the whole of name matches mask, the wildcards standing for characters of
\* the set wild only
RECURSIVE Glob(_, _, _)
Glob(name, mask, wild) ==
  IF mask = <<>> THEN name = <<>>
  ELSE IF Head(mask) = Ord["*"]
    THEN \E k \in 0..Len(name) :
           /\ \A j \in 1..k : name[j] \in wild
           /\ Glob(Drop(name, k), Tail(mask), wild)
  ELSE IF Head(mask) = Ord["?"]
    THEN name # <<>> /\ Head(name) \in wild /\ Glob(Tail(name), Tail(mask), wild)
  ELSE name # <<>> /\ Head(name) = Head(mask) /\ Glob(Tail(name), Tail(mask), wild)

AnyChar == 0..255

\* C13 as stated: match_wildcard is true exactly when the whole name matches
\* the mask, "?" for exactly one character, "*" for zero or more characters,
\* any other character for itself.
C13_Original ==
  WildcardDone => (pf.matched <=> Glob(pf.name, pf.mask, AnyChar))

\* C13: match_wildcard is true exactly when the whole name matches the mask,
\* "?" for exactly one character other than a newline, "*" for zero or more
\* characters other than a newline, any other character for itself and in
\* its own case only; an empty mask matches the empty name only.
C13_Wildcard ==
  WildcardDone =>
    /\ pf.matched <=> Glob(pf.name, pf.mask, AnyChar \ {Ord["\n"]})
    /\ pf.mask = <<>> => (pf.matched <=> pf.name = <<>>)

\* "L?NG*+" has matched "LONGFIL+"
C13_Witness ==
  /\ WildcardDone
  /\ pf.name = Str(<<"L", "O", "N", "G", "F", "I", "L", "+">>)
  /\ pf.mask = Str(<<"L", "?", "N", "G", "*", "+">>)
  /\ pf.matched

----------------------------------------------------------------------------
(* C14: the directory filter *)

FilterDone == pf.pc = "done" /\ pf.op = "filter"

\* a dotfile: no trunk, and an extension that is not the one of ".."
HiddenDotfile(p) == p[1] = <<>> /\ p[2] # <<>> /\ p[2] # Str(<<".">>)

\* the short name p passes the two halves of the mask
PassesMask(p, mask) ==
  /\ Glob(p[1], split_dosname(mask, FALSE)[1], AnyChar \ {Ord["\n"]})
  /\ Glob(p[2], split_dosname(mask, FALSE)[2], AnyChar \ {Ord["\n"]})

\* how many entries of the list l are p
Count(l, p) == Cardinality({i \in 1..Len(l) : l[i] = p})

ShortNames(files_list) ==
  [i \in 1..Len(files_list) |-> split_dosname(files_list[i], TRUE)]

\* C14: filter_names returns, in ascending order of (trunk, ext), exactly the
\* short names of the listed entries whose trunk and extension match the two
\* halves of the mask and which are not hidden dotfiles; "." and ".." are
\* not hidden.
C14_FilterNames ==
  FilterDone =>
    /\ \A i, j \in 1..Len(pf.names) :
         i < j => ~TupleLess(pf.names[j], pf.names[i])
    /\ \A p \in {pf.names[i] : i \in 1..Len(pf.names)}
              \cup {ShortNames(pf.files_list)[i] : i \in 1..Len(pf.files_list)} :
         Count(pf.names, p) =
           IF PassesMask(p, pf.mask) /\ ~HiddenDotfile(p)
             THEN Count(ShortNames(pf.files_list), p)
             ELSE 0

\* "ab" and ".." filtered by "*.*": both kept, ".." first
C14_Witness ==
  /\ FilterDone
  /\ pf.files_list = <<Str(<<"a", "b">>), Str(<<".", ".">>)>>
  /\ pf.mask = Str(<<"*", ".", "*">>)
  /\ pf.names = << <<(<<>>), Str(<<".">>)>>, <<Str(<<"A", "B">>), (<<>>)>> >>

----------------------------------------------------------------------------
(* C15: a directory that cannot be listed, checked under SpecDenied *)

ListingFailed ==
  \E j \in 1..Len(ops) : ops[j].op = "listdir" /\ ~ops[j].res

\* the mounted directory, empty and listable
EmptyTree == MatchTree({}, <<>>)

\* C15: when the listing of the directory fails, match_filename ends as it
\* does in an empty directory: with the canonical 8.3 name in synthesize
\* mode, with the caller's not-found error in error mode, and never with an
\* error of the listing.
C15_ListingFailure ==
  (MFDone /\ ListingFailed) =>
    /\ mf.res = IF mf.name_err = ""
                  THEN Return(Canonical(Resolving))
                  ELSE Raise(mf.name_err)
    /\ mf.res = match_filename(EmptyTree, {}, mf.raw, mf.defext, mf.path,
                               mf.name_err, mf.isdir)

\* a file "AB" asked for in an unlistable directory that holds "ab": the
\* entry goes unseen and the new file is named "AB"
C15_Witness ==
  /\ MFDone
  /\ ListingFailed
  /\ mf.raw = Str(<<"A", "B">>)
  /\ mf.defext = <<>>
  /\ ~mf.isdir
  /\ mf.name_err = ""
  /\ EntryOfKind(fs, mf.path, Str(<<"a", "b">>), FALSE)
  /\ mf.res = Return(Str(<<"A", "B">>))

----------------------------------------------------------------------------
(* C16: two trailing dots, checked under SpecDenied *)

\* X.. with X not empty and without a dot
DoubleDotted(name) ==
  /\ Len(name) >= 3
  /\ name[Len(name)] = Dot
  /\ name[Len(name) - 1] = Dot
  /\ Dot \notin Chars(SubSeq(name, 1, Len(name) - 2))

\* C16: for a rawName X.. match_filename tries the literal name only: it
\* returns it if an entry of that name and the kind asked for exists, and
\* otherwise returns no name in either mode; it probes no other name, never
\* lists the directory and never returns an 8.3 name.
C16_DoubleDot ==
  (MFDone /\ DoubleDotted(mf.raw)) =>
    /\ IF EntryOfKind(fs, mf.path, mf.raw, mf.isdir)
         THEN mf.res = Return(mf.raw)
         ELSE mf.res.kind = "raise"
    /\ ~HasOp("listdir")
    /\ \A j \in 1..Len(ops) : ops[j].op = "istype" => ops[j].name = mf.raw

\* "ab.." asked for as a new file where no such entry is: no name comes back
C16_Witness ==
  /\ MFDone
  /\ mf.raw = Str(<<"a", "b", ".", ".">>)
  /\ mf.name_err = ""
  /\ ~EntryOfKind(fs, mf.path, mf.raw, mf.isdir)
  /\ EntryOfKind(fs, mf.path, Str(<<"a", "b">>), mf.isdir)
  /\ mf.res = BadFileName

----------------------------------------------------------------------------
(* C17: a directory changing under the call, checked under SpecRace *)

\* a probe of the call that found name with the kind asked for
ProbedPresent(name) ==
  [op |-> "istype", path |-> mf.path, name |-> name, isdir |-> mf.isdir,
   res |-> TRUE]

ReturnedInErrorMode ==
  MFDone /\ mf.name_err # "" /\ mf.res.kind = "return"

\* C17: in error mode every name match_filename returns was found by one of
\* the existence probes of that call, with the kind asked for, whatever
\* another process did to the directory meanwhile; if the directory did not
\* change the name is an entry of that kind when the call returns.
C17_ReturnedWasProbed ==
  ReturnedInErrorMode =>
    /\ \E j \in 1..Len(ops) : ops[j] = ProbedPresent(mf.res.name)
    /\ changes = 0 => EntryOfKind(fs, mf.path, mf.res.name, mf.isdir)

\* "ab" was found by the scan for "AB" and removed after its probe: the call
\* returns the name of an entry that is no more
C17_Witness ==
  /\ ReturnedInErrorMode
  /\ changes > 0
  /\ HasOp("listdir")
  /\ mf.raw = Str(<<"A", "B">>)
  /\ mf.res = Return(Str(<<"a", "b">>))
  /\ ~EntryOfKind(fs, mf.path, mf.res.name, mf.isdir)

====
